---- MODULE Spec2Model ----
(***************************************************************************)
(* OpinionRadar: the lexicon-based sentiment scorer                        *)
(* (src/src/analyzer/sentiment_analysis.py, class SentimentAnalyzer) and   *)
(* the frequency-based text miner (src/src/analyzer/text_mining.py, class  *)
(* TextMiner).                                                             *)
(*                                                                         *)
(* Representation.  A character is its Unicode code point, a token (a word *)
(* of the segmentation) is a sequence of code points, so that len(word),   *)
(* word.strip(), word.isdigit() and substring search are computed and not  *)
(* assumed.  jieba.cut is an external library: a string is given by the    *)
(* segmentation jieba.cut returns for it, and the string itself is the     *)
(* concatenation of its tokens (jieba.cut drops no character).  A float is *)
(* a pair <<numerator, denominator>> with a positive denominator; the      *)
(* intensity weights are kept in tenths.                                   *)
(***************************************************************************)
EXTENDS Integers, Sequences, FiniteSets, TLC

(***************************************************************************)
(* The built-in lexicon, SentimentAnalyzer.__init__ (lines 16-36), and the *)
(* base stopwords, TextMiner.load_stopwords (lines 28-33).                 *)
(***************************************************************************)
Lexicon_positive_words ==
  {
    <<22909>>, <<26834>>, <<36190>>,   \* 好 棒 赞
    <<20248, 31168>>, <<28418, 20142>>, <<32654>>,   \* 优秀 漂亮 美
    <<21487, 29233>>, <<21916, 27426>>, <<29233>>,   \* 可爱 喜欢 爱
    <<26834, 26834>>, <<21385, 23475>>, <<24378, 22823>>,   \* 棒棒 厉害 强大
    <<31934, 24425>>, <<23436, 32654>>, <<36229, 36190>>,   \* 精彩 完美 超赞
    <<22826, 26834, 20102>>, <<25903, 25345>>, <<21152, 27833>>,   \* 太棒了 支持 加油
    <<26834, 26834, 21714>>, <<32654, 32654, 21714>>, <<21916, 27426, 21916, 27426>>,   \* 棒棒哒 美美哒 喜欢喜欢
    <<36190, 36190, 36190>>   \* 赞赞赞
  }

Lexicon_negative_words ==
  {
    <<24046>>, <<28866>>, <<22403, 22334>>,   \* 差 烂 垃圾
    <<24046, 21170>>, <<24694, 24515>>, <<35752, 21388>>,   \* 差劲 恶心 讨厌
    <<26080, 32842>>, <<38590, 30475>>, <<22833, 26395>>,   \* 无聊 难看 失望
    <<26080, 35821>>, <<19981, 34892>>, <<19981, 22909>>,   \* 无语 不行 不好
    <<31967, 31957>>, <<24046, 35780>>, <<24046, 24046, 24046>>,   \* 糟糕 差评 差差差
    <<24694, 35780>>, <<22826, 24046, 20102>>, <<19981, 22909, 30475>>,   \* 恶评 太差了 不好看
    <<27809, 24847, 24605>>, <<19981, 21916, 27426>>   \* 没意思 不喜欢
  }

Lexicon_negation_words ==
  {
    <<19981>>, <<27809>>, <<26080>>, <<38750>>, <<33707>>, <<21247>>, <<26410>>   \* 不 没 无 非 莫 勿 未
  }

\* the table with a positive word among its keys: '喜欢': 1.5
Lexicon_intensity_words_WithSentimentKey ==
  {<<<<21916, 27426>>, 15>>, <<<<24456>>, 13>>}

Lexicon_intensity_words ==
  {
    <<<<38750, 24120>>, 15>>,   \* 非常: 1.5
    <<<<26497, 20854>>, 15>>,   \* 极其: 1.5
    <<<<21313, 20998>>, 15>>,   \* 十分: 1.5
    <<<<36229, 32423>>, 15>>,   \* 超级: 1.5
    <<<<29305, 21035>>, 15>>,   \* 特别: 1.5
    <<<<24456>>, 13>>,   \* 很: 1.3
    <<<<25402>>, 12>>,   \* 挺: 1.2
    <<<<27604, 36739>>, 11>>,   \* 比较: 1.1
    <<<<26377, 28857>>, 8>>,   \* 有点: 0.8
    <<<<31245, 24494>>, 8>>,   \* 稍微: 0.8
    <<<<30053, 24494>>, 8>>   \* 略微: 0.8
  }

base_stopwords ==
  {
    <<30340>>, <<20102>>, <<22312>>, <<26159>>, <<25105>>, <<26377>>,   \* 的 了 在 是 我 有
    <<21644>>, <<23601>>, <<19981>>, <<20154>>, <<37117>>, <<19968>>,   \* 和 就 不 人 都 一
    <<19968, 20010>>, <<19978>>, <<20063>>, <<24456>>, <<21040>>, <<35828>>,   \* 一个 上 也 很 到 说
    <<35201>>, <<21435>>, <<20320>>, <<20250>>, <<30528>>, <<27809, 26377>>,   \* 要 去 你 会 着 没有
    <<30475>>, <<22909>>, <<33258, 24049>>, <<36825>>, <<36825, 20010>>   \* 看 好 自己 这 这个
  }

(***************************************************************************)
(* Bounds of the checked inputs.                                           *)
(***************************************************************************)
\* longest token sequence handed to analyze_sentence
MaxWords == 4
\* most rows of a DataFrame
MaxComments == 2
\* most tokens in all the rows of a DataFrame together
MaxTokens == 3
\* largest top_n / min_count argument
MaxTopN == 3

(***************************************************************************)
(* Tokens of the checked inputs.                                           *)
(***************************************************************************)
W_bu == <<19981>>              \* 不  negation marker, stopword, 1 code point
W_xihuan == <<21916, 27426>>   \* 喜欢 positive word
W_laji == <<22403, 22334>>     \* 垃圾 negative word
W_hen == <<24456>>             \* 很  intensity word, stopword
W_shipin == <<35270, 39057>>   \* 视频 in no lexicon set
W_yige == <<19968, 20010>>     \* 一个 stopword of 2 code points
W_12 == <<49, 50>>             \* "12"
W_crlf == <<13, 10>>           \* "\r\n", which jieba.cut yields as one token
W_plusplus == <<43, 43>>       \* "++"
W_1p5 == <<49, 46, 53>>        \* "1.5"

(***************************************************************************)
(* Values of a cell / of the text argument.  kind "str": a Python str,     *)
(* words = list(jieba.cut(text)).  kind "none": None / NaN.  kind "num": a *)
(* number, words = list(jieba.cut(str(value))).  kind "list": a list.      *)
(***************************************************************************)
Str(ws) == [kind |-> "str", words |-> ws]
None == [kind |-> "none", words |-> <<>>]
Num1p5 == [kind |-> "num", words |-> <<W_1p5>>]    \* the float 1.5
AList == [kind |-> "list", words |-> <<>>]

\* isinstance(text, str)
IsStr(v) == v.kind = "str"

\* all sequences over S of length 0..n
SeqsUpTo(S, n) == UNION {[1..k -> S] : k \in 0..n}

(***************************************************************************)
(* Floats as fractions.                                                    *)
(***************************************************************************)
Frac(n, d) == <<n, d>>
FLt(a, b) == a[1] * b[2] < b[1] * a[2]
FLe(a, b) == a[1] * b[2] <= b[1] * a[2]
FEq(a, b) == a[1] * b[2] = b[1] * a[2]
FMin(a, b) == IF FLt(b, a) THEN b ELSE a      \* Python min(a, b)
FMax(a, b) == IF FLt(a, b) THEN b ELSE a      \* Python max(a, b)

VARIABLES
  positive_words,    \* SentimentAnalyzer.positive_words
  negative_words,    \* SentimentAnalyzer.negative_words
  intensity_words,   \* SentimentAnalyzer.intensity_words, pairs <<word, tenths>>
  negation_words,    \* SentimentAnalyzer.negation_words
  stopwords,         \* TextMiner.stopwords
  sentence,          \* the caller's value handed to analyze_sentence
  df,                \* the caller's DataFrame: column name -> sequence of cells
  call,              \* the last call: its operation, arguments and outcome
  fail_at,           \* jieba.cut raises at this invocation of a call, 0: never
  first              \* history: the first call of the behaviour

vars == <<positive_words, negative_words, intensity_words, negation_words,
          stopwords, sentence, df, call, fail_at, first>>

lexicon == <<positive_words, negative_words, intensity_words, negation_words>>

(***************************************************************************)
(* SentimentAnalyzer.analyze_sentence                                      *)
(***************************************************************************)
\* self.intensity_words.get(word, 0): a word that is no key weighs nothing
IntensityGet_AbsentIsZero(iw, word) ==
  IF \E p \in iw : p[1] = word
  THEN (CHOOSE p \in iw : p[1] = word)[2]
  ELSE 0

\* self.intensity_words.get(word, 1.0), in tenths
IntensityGet(iw, word) ==
  IF \E p \in iw : p[1] = word
  THEN (CHOOSE p \in iw : p[1] = word)[2]
  ELSE 10

\* lines 67-68 without the negation flip
WordScore_NeverFlipped(base, negation) == base

\* lines 67-68: the word's score, sign-flipped under a pending negation
WordScore(base, negation) == IF negation THEN -base ELSE base

\* the loop with a marker reversing the negation instead of setting it
RECURSIVE SentenceLoop_MarkersToggle(_, _, _, _, _)
SentenceLoop_MarkersToggle(lex, words, i, score, negation) ==
  IF i > Len(words) THEN score
  ELSE LET word == words[i]
           intensity == IntensityGet(lex[3], word)
       IN IF word \in lex[4]
          THEN SentenceLoop_MarkersToggle(lex, words, i + 1, score, ~negation)
          ELSE IF word \notin lex[1] /\ word \notin lex[2]
          THEN SentenceLoop_MarkersToggle(lex, words, i + 1, score, negation)
          ELSE LET base == IF word \in lex[1] THEN 1 ELSE -1
                   word_score == WordScore(base, negation)
               IN SentenceLoop_MarkersToggle(lex, words, i + 1,
                                             score + word_score * intensity,
                                             FALSE)

\* the loop with the negation cleared by every token that is no marker
RECURSIVE SentenceLoop_NextTokenOnly(_, _, _, _, _)
SentenceLoop_NextTokenOnly(lex, words, i, score, negation) ==
  IF i > Len(words) THEN score
  ELSE LET word == words[i]
           intensity == IntensityGet(lex[3], word)
       IN IF word \in lex[4]
          THEN SentenceLoop_NextTokenOnly(lex, words, i + 1, score, TRUE)
          ELSE IF word \notin lex[1] /\ word \notin lex[2]
          THEN SentenceLoop_NextTokenOnly(lex, words, i + 1, score, FALSE)
          ELSE LET base == IF word \in lex[1] THEN 1 ELSE -1
                   word_score == WordScore(base, negation)
               IN SentenceLoop_NextTokenOnly(lex, words, i + 1,
                                             score + word_score * intensity,
                                             FALSE)

\* the for loop of lines 49-72 from index i on: the score in tenths
RECURSIVE SentenceLoop(_, _, _, _, _)
SentenceLoop(lex, words, i, score, negation) ==
  IF i > Len(words) THEN score
  ELSE LET word == words[i]
           intensity == IntensityGet(lex[3], word)
       IN IF word \in lex[4]
          THEN SentenceLoop(lex, words, i + 1, score, TRUE)
          ELSE IF word \notin lex[1] /\ word \notin lex[2]
          THEN SentenceLoop(lex, words, i + 1, score, negation)
          ELSE LET base == IF word \in lex[1] THEN 1 ELSE -1
                   word_score == WordScore(base, negation)
               IN SentenceLoop(lex, words, i + 1,
                               score + word_score * intensity, FALSE)

\* lines 74-76 left out: the sum of the word scores is returned as it is
Normalize_Skipped(score, n) == Frac(score, 10)

\* lines 74-76: max(-1, min(1, score / len(words)))
Normalize(score, n) ==
  IF n > 0
  THEN FMax(Frac(-1, 1), FMin(Frac(1, 1), Frac(score, 10 * n)))
  ELSE Frac(score, 10)

\* the returned score
analyze_sentence(lex, text) ==
  IF ~IsStr(text) THEN Frac(0, 1)
  ELSE Normalize(SentenceLoop(lex, text.words, 1, 0, FALSE), Len(text.words))

\* jieba.cut called before the isinstance test
analyze_sentence_cuts_Unguarded(text) == 1

\* how often analyze_sentence calls jieba.cut
analyze_sentence_cuts(text) == IF ~IsStr(text) THEN 0 ELSE 1

(***************************************************************************)
(* SentimentAnalyzer.classify_sentiment                                    *)
(***************************************************************************)
\* the thresholds taken inclusive
classify_sentiment_Inclusive(score) ==
  IF FLe(Frac(1, 10), score) THEN "Positive"
  ELSE IF FLe(score, Frac(-1, 10)) THEN "Negative"
  ELSE "Neutral"

\* '积极' is "Positive", '消极' is "Negative", '中性' is "Neutral"
classify_sentiment(score) ==
  IF FLt(Frac(1, 10), score) THEN "Positive"
  ELSE IF FLt(score, Frac(-1, 10)) THEN "Negative"
  ELSE "Neutral"

(***************************************************************************)
(* A DataFrame: a function from column names to columns of equal length.   *)
(* "content" is the column '内容', "sentiment_score" is '情感分数' and      *)
(* "sentiment_label" is '情感分类'.                                         *)
(***************************************************************************)
Frame(cells) == [c \in {"content"} |-> cells]

\* df[name] = column: the column is added, or replaced when it is there
SetColumn(frame, name, column) ==
  [c \in DOMAIN frame \cup {name} |-> IF c = name THEN column ELSE frame[c]]

(***************************************************************************)
(* The checked inputs of the sentence-level calls.                         *)
(***************************************************************************)
SentenceVocab == {W_bu, W_xihuan, W_laji, W_hen, W_shipin}
SentenceInputs ==
  {Str(ws) : ws \in SeqsUpTo(SentenceVocab, MaxWords)} \cup {None, Num1p5, AList}

\* 0.1, 0.10001, -0.1, -0.10001 and their neighbours, and the multiples of 0.1
ScoreInputs ==
  {Frac(n, 100000) :
     n \in {-100000, -10001, -10000, -9999, 0, 9999, 10000, 10001, 100000}}
  \cup {Frac(n, 10) : n \in -10..10}

ConstructedLexicon ==
  /\ positive_words = Lexicon_positive_words
  /\ negative_words = Lexicon_negative_words
  /\ intensity_words = Lexicon_intensity_words
  /\ negation_words = Lexicon_negation_words

\* SentimentAnalyzer() and TextMiner() constructed, nothing called yet
InitSentence ==
  /\ ConstructedLexicon
  /\ stopwords = base_stopwords
  /\ sentence \in SentenceInputs
  /\ df = Frame(<<>>)
  /\ call = [op |-> "constructed"]
  /\ fail_at = 0
  /\ first = [op |-> "none"]

\* a caller that catches what jieba.cut raises and goes on
TokenizerRaises_Swallowed(cuts) == FALSE

\* jieba.cut raises inside a call that invokes it cuts times; no caller of
\* jieba.cut has a try around it, so the exception leaves the call
TokenizerRaises(cuts) == fail_at \in 1..cuts

\* analyzer.analyze_sentence(sentence)
AnalyzeSentenceCall ==
  LET cuts == analyze_sentence_cuts(sentence)
  IN /\ call' = IF TokenizerRaises(cuts)
                THEN [op |-> "analyze_sentence", text |-> sentence,
                      raised |-> "TokenizerError", cuts |-> fail_at]
                ELSE [op |-> "analyze_sentence", text |-> sentence,
                      raised |-> "none",
                      ret |-> analyze_sentence(lexicon, sentence),
                      cuts |-> cuts]
     /\ UNCHANGED <<lexicon, stopwords, sentence, df, fail_at>>

AnalyzeSentence == AnalyzeSentenceCall /\ UNCHANGED first

\* analyzer.classify_sentiment(score), score drawn from scores
ClassifySentimentCall(scores) ==
  \E score \in scores :
    /\ call' = [op |-> "classify_sentiment", score |-> score,
                raised |-> "none",
                ret |-> classify_sentiment(score)]
    /\ UNCHANGED <<lexicon, stopwords, sentence, df, fail_at>>

ClassifySentiment == ClassifySentimentCall(ScoreInputs) /\ UNCHANGED first

NextSentence == AnalyzeSentence \/ ClassifySentiment

SpecSentence == InitSentence /\ [][NextSentence]_vars

(***************************************************************************)
(* Characters: str.isspace / regex \s, str.isdigit, regex \w and the       *)
(* range U+4E00..U+9FFF, on the code points the inputs use (ASCII and the *)
(* CJK ideographs).                                                        *)
(***************************************************************************)
IsSpace(c) == c \in {9, 10, 11, 12, 13, 32}
IsDigit(c) == c \in 48..57
IsCJK(c) == c \in 19968..40959
IsWordChar(c) ==
  IsDigit(c) \/ c \in 65..90 \/ c \in 97..122 \/ c = 95 \/ IsCJK(c)

\* str(text) of a cell: the concatenation of its tokens
RECURSIVE Concat(_)
Concat(ws) == IF ws = <<>> THEN <<>> ELSE Head(ws) \o Concat(Tail(ws))

RawText(cell) == Concat(cell.words)

\* word.strip()
RECURSIVE LStrip(_)
LStrip(w) == IF w # <<>> /\ IsSpace(Head(w)) THEN LStrip(Tail(w)) ELSE w

RECURSIVE RStrip(_)
RStrip(w) ==
  IF w # <<>> /\ IsSpace(w[Len(w)]) THEN RStrip(SubSeq(w, 1, Len(w) - 1)) ELSE w

Strip(w) == RStrip(LStrip(w))

\* word.isdigit()
IsDigitWord(w) == w # <<>> /\ \A k \in DOMAIN w : IsDigit(w[k])

(***************************************************************************)
(* TextMiner.clean_text                                                    *)
(***************************************************************************)
\* re.sub(r'[^\w一-鿿\s]', '', text)
RECURSIVE RemoveSpecial(_)
RemoveSpecial(t) ==
  IF t = <<>> THEN <<>>
  ELSE IF IsWordChar(Head(t)) \/ IsCJK(Head(t)) \/ IsSpace(Head(t))
       THEN <<Head(t)>> \o RemoveSpecial(Tail(t))
       ELSE RemoveSpecial(Tail(t))

\* re.sub(r'\s+', ' ', text)
RECURSIVE CollapseSpaces(_)
CollapseSpaces(t) ==
  IF t = <<>> THEN <<>>
  ELSE IF IsSpace(Head(t))
       THEN <<32>> \o CollapseSpaces(LStrip(Tail(t)))
       ELSE <<Head(t)>> \o CollapseSpaces(Tail(t))

\* clean_text of a str (line 82 hands it a str)
clean_text(t) == Strip(CollapseSpaces(RemoveSpecial(t)))

(***************************************************************************)
(* TextMiner.analyze_comments                                              *)
(***************************************************************************)
\* df[text_column].dropna(): the cells that are not None / NaN
RECURSIVE DropNa(_)
DropNa(cells) ==
  IF cells = <<>> THEN <<>>
  ELSE IF Head(cells).kind = "none" THEN DropNa(Tail(cells))
       ELSE <<Head(cells)>> \o DropNa(Tail(cells))

\* ' '.join(...) of line 82
RECURSIVE JoinTexts(_)
JoinTexts(cells) ==
  IF cells = <<>> THEN <<>>
  ELSE IF Len(cells) = 1 THEN RawText(cells[1])
       ELSE RawText(cells[1]) \o <<32>> \o JoinTexts(Tail(cells))

\* lines 97-99 with the strip of line 96 left out
Retained_Unstripped(sw, word) ==
  /\ Len(word) >= 2
  /\ word \notin sw
  /\ ~IsDigitWord(word)

\* lines 96-99: the test on the stripped word
Retained(sw, word) ==
  /\ Len(Strip(word)) >= 2
  /\ Strip(word) \notin sw
  /\ ~IsDigitWord(Strip(word))

\* lines 95-100 for one segmentation: the words appended, in order
RECURSIVE FilterWords(_, _)
FilterWords(sw, seg) ==
  IF seg = <<>> THEN <<>>
  ELSE IF Retained(sw, Head(seg))
       THEN <<Strip(Head(seg))>> \o FilterWords(sw, Tail(seg))
       ELSE FilterWords(sw, Tail(seg))

\* lines 92-100: the list words, over the cells that are not None
RECURSIVE CollectWords(_, _)
CollectWords(sw, cells) ==
  IF cells = <<>> THEN <<>>
  ELSE FilterWords(sw, Head(cells).words) \o CollectWords(sw, Tail(cells))

\* Counter(words) recording each word once, repeats not added up
RECURSIVE CounterOf_Presence(_, _)
CounterOf_Presence(acc, words) ==
  IF words = <<>> THEN acc
  ELSE IF \E k \in DOMAIN acc : acc[k][1] = Head(words)
       THEN CounterOf_Presence(acc, Tail(words))
       ELSE CounterOf_Presence(Append(acc, <<Head(words), 1>>), Tail(words))

\* Counter(words): the pairs <<word, count>> in the order of first occurrence
\* (a dict keeps insertion order)
RECURSIVE CounterOf(_, _)
CounterOf(acc, words) ==
  IF words = <<>> THEN acc
  ELSE LET w == Head(words)
       IN IF \E k \in DOMAIN acc : acc[k][1] = w
          THEN CounterOf([k \in DOMAIN acc |->
                            IF acc[k][1] = w THEN <<w, acc[k][2] + 1>> ELSE acc[k]],
                         Tail(words))
          ELSE CounterOf(Append(acc, <<w, 1>>), Tail(words))

RemoveAt(s, k) == SubSeq(s, 1, k - 1) \o SubSeq(s, k + 1, Len(s))

\* the sort of most_common taking the last of equal counts first
RECURSIVE SortedByCount_LastFirst(_)
SortedByCount_LastFirst(items) ==
  IF items = <<>> THEN <<>>
  ELSE LET k == CHOOSE a \in DOMAIN items :
                  \A b \in DOMAIN items :
                    \/ items[a][2] > items[b][2]
                    \/ (items[a][2] = items[b][2] /\ a >= b)
       IN <<items[k]>> \o SortedByCount_LastFirst(RemoveAt(items, k))

\* sorted(items, key=count, reverse=True): stable, so among equal counts the
\* earlier item of the Counter comes first
RECURSIVE SortedByCount(_)
SortedByCount(items) ==
  IF items = <<>> THEN <<>>
  ELSE LET k == CHOOSE a \in DOMAIN items :
                  \A b \in DOMAIN items :
                    \/ items[a][2] > items[b][2]
                    \/ (items[a][2] = items[b][2] /\ a <= b)
       IN <<items[k]>> \o SortedByCount(RemoveAt(items, k))

\* Counter.most_common(n) = heapq.nlargest(n, items, key=count), which is
\* sorted(items, key=count, reverse=True)[:n] for n >= 0
most_common(counter, n) ==
  LET sorted == SortedByCount(counter)
  IN SubSeq(sorted, 1, IF n < Len(sorted) THEN n ELSE Len(sorted))

\* the result {} of line 89
EmptyResult == <<>>

\* lines 87-89 left out: a table is built whatever the cleaned text is
TextMiner_analyze_comments_NoEarlyReturn(sw, frame, top_n) ==
  LET cells == DropNa(frame["content"])
      words == CollectWords(sw, cells)
      word_counts == CounterOf(<<>>, words)
  IN [top_words |-> most_common(word_counts, top_n),
      total_words |-> Len(words),
      unique_words |-> Len(word_counts),
      all_word_counts |-> word_counts]

\* the return value of TextMiner.analyze_comments
TextMiner_analyze_comments(sw, frame, top_n) ==
  LET cells == DropNa(frame["content"])
      cleaned_text == clean_text(JoinTexts(cells))
      words == CollectWords(sw, cells)
      word_counts == CounterOf(<<>>, words)
  IN IF cleaned_text = <<>> THEN EmptyResult
     ELSE [top_words |-> most_common(word_counts, top_n),
           total_words |-> Len(words),
           unique_words |-> Len(word_counts),
           all_word_counts |-> word_counts]

\* the calls of jieba.cut TextMiner.analyze_comments makes
TextMiner_analyze_comments_cuts(frame) ==
  IF clean_text(JoinTexts(DropNa(frame["content"]))) = <<>> THEN 0
  ELSE Len(DropNa(frame["content"]))

(***************************************************************************)
(* TextMiner.find_hot_topics                                               *)
(***************************************************************************)
\* top_n of line 140
HotTopicsTopN == 50
\* head(3) of line 155
SampleSize == 3

\* df[text_column].str raises AttributeError ("Can only use .str accessor
\* with string values") on a column that is not of object dtype: a column of
\* numbers and None/NaN only is float64
StrAccessorFails(cells) ==
  /\ \A k \in DOMAIN cells : cells[k].kind # "str"
  /\ \E k \in DOMAIN cells : cells[k].kind = "num"

\* str.contains(word) compiles word as a regular expression (regex=True is
\* the default): a pattern that starts with "+" raises re.error (nothing to
\* repeat).  Of the characters of a token of two or more code points only
\* "+" and "." are special in a pattern; the checked tokens have "+" only at
\* the start.
RegexFails(pat) == pat # <<>> /\ pat[1] = 43

\* the pattern matches t at position k: "." is any character but "\n"
RegexMatchAt(pat, t, k) ==
  /\ k + Len(pat) - 1 <= Len(t)
  /\ \A j \in DOMAIN pat :
       IF pat[j] = 46 THEN t[k + j - 1] # 10 ELSE t[k + j - 1] = pat[j]

\* re.search(pat, t) finds a match
RegexSearch(pat, t) == \E k \in 1..(Len(t) + 1) : RegexMatchAt(pat, t, k)

\* str.contains(word, na=False) of one cell: a cell that is not a str is NaN,
\* which na=False turns into False
Contains(cell, word) == cell.kind = "str" /\ RegexSearch(word, RawText(cell))

\* the cells of related_comments, in the order of the rows
RECURSIVE RelatedComments(_, _)
RelatedComments(cells, word) ==
  IF cells = <<>> THEN <<>>
  ELSE IF Contains(Head(cells), word)
       THEN <<Head(cells)>> \o RelatedComments(Tail(cells), word)
       ELSE RelatedComments(Tail(cells), word)

\* a topic whose occurrence_count is the number of related comments
Topic_CountsComments(cells, word, count) ==
  LET related_comments == RelatedComments(cells, word)
  IN [keyword |-> word,
      occurrence_count |-> Len(related_comments),
      related_comment_count |-> Len(related_comments),
      sample_comments |->
        SubSeq(related_comments, 1,
               IF Len(related_comments) < SampleSize
               THEN Len(related_comments) ELSE SampleSize)]

\* lines 151-156
Topic(cells, word, count) ==
  LET related_comments == RelatedComments(cells, word)
  IN [keyword |-> word,
      occurrence_count |-> count,
      related_comment_count |-> Len(related_comments),
      sample_comments |->
        SubSeq(related_comments, 1,
               IF Len(related_comments) < SampleSize
               THEN Len(related_comments) ELSE SampleSize)]

\* the entries of top_words that pass line 147, in order
HotEntries(top_words, min_count) ==
  SelectSeq(top_words, LAMBDA e : e[2] >= min_count)

\* the outcome of find_hot_topics: the exception raised ("none" when it
\* returns) and the list returned
find_hot_topics(sw, frame, min_count) ==
  LET word_counts == TextMiner_analyze_comments(sw, frame, HotTopicsTopN)
      cells == frame["content"]
  IN IF "top_words" \notin DOMAIN word_counts
     THEN [raised |-> "none", topics |-> <<>>]
     ELSE LET hot == HotEntries(word_counts.top_words, min_count)
          IN IF hot = <<>> THEN [raised |-> "none", topics |-> <<>>]
             ELSE IF StrAccessorFails(cells)
             THEN [raised |-> "AttributeError", topics |-> <<>>]
             ELSE IF \E k \in DOMAIN hot : RegexFails(hot[k][1])
             THEN [raised |-> "re.error", topics |-> <<>>]
             ELSE [raised |-> "none",
                   topics |-> [k \in DOMAIN hot |->
                                 Topic(cells, hot[k][1], hot[k][2])]]

(***************************************************************************)
(* SentimentAnalyzer.analyze_comments                                      *)
(***************************************************************************)
\* line 85: df[text_column].apply(self.analyze_sentence)
ScoreColumn(lex, cells) ==
  [k \in DOMAIN cells |-> analyze_sentence(lex, cells[k])]

\* line 88: df['情感分数'].apply(self.classify_sentiment)
LabelColumn(scores) ==
  [k \in DOMAIN scores |-> classify_sentiment(scores[k])]

\* line 91 counting each label once
ValueCounts_Distinct(labels) ==
  [l \in {labels[k] : k \in DOMAIN labels} |-> 1]

\* line 91: value_counts(), a count for every label that occurs
ValueCounts(labels) ==
  [l \in {labels[k] : k \in DOMAIN labels} |->
     Cardinality({k \in DOMAIN labels : labels[k] = l})]

\* the caller's DataFrame after lines 85 and 88: the two columns are set in
\* the frame that was passed in
Annotated(lex, frame) ==
  LET scores == ScoreColumn(lex, frame["content"])
  IN SetColumn(SetColumn(frame, "sentiment_score", scores),
               "sentiment_label", LabelColumn(scores))

(***************************************************************************)
(* The checked DataFrames: at most rows rows holding at most tokens tokens *)
(* of vocab together.  A cell is a str, None or the float 1.5.             *)
(***************************************************************************)
RECURSIVE Corpora(_, _, _)
Corpora(vocab, rows, tokens) ==
  IF rows = 0 THEN {<<>>}
  ELSE {<<>>}
       \cup {<<cell>> \o rest :
               cell \in {None}, rest \in Corpora(vocab, rows - 1, tokens)}
       \cup (IF tokens = 0 THEN {}
             ELSE {<<cell>> \o rest :
                     cell \in {Num1p5},
                     rest \in Corpora(vocab, rows - 1, tokens - 1)})
       \cup UNION {{<<Str(ws)>> \o rest :
                      ws \in [1..n -> vocab],
                      rest \in Corpora(vocab, rows - 1, tokens - n)} :
                   n \in 0..tokens}

\* the tokens of the DataFrames all three corpus-wide calls are made on
CorpusVocab == {W_xihuan, W_bu, W_plusplus}

\* the tokens of the DataFrames mined alone: two kept words, a stopword of
\* two code points, a token of one code point, digits and "\r\n"
MineVocab == {W_shipin, W_xihuan, W_yige, W_bu, W_12, W_crlf}

Constructed ==
  /\ ConstructedLexicon
  /\ stopwords = base_stopwords
  /\ sentence = None
  /\ call = [op |-> "constructed"]
  /\ fail_at = 0
  /\ first = [op |-> "none"]

\* SentimentAnalyzer() and TextMiner() constructed, the DataFrame loaded
Init ==
  /\ Constructed
  /\ df \in {Frame(cells) : cells \in Corpora(CorpusVocab, MaxComments, MaxTokens)}

InitMine ==
  /\ Constructed
  /\ df \in {Frame(cells) : cells \in Corpora(MineVocab, MaxComments, MaxTokens)}

\* analyzer.analyze_comments(df): returns (df, sentiment_counts).  When
\* jieba.cut raises inside the apply of line 85 the assignment of the column
\* is never reached.
SentimentAnalyzeCommentsCall ==
  LET annotated == Annotated(lexicon, df)
      cuts == Cardinality({k \in DOMAIN df["content"] :
                             IsStr(df["content"][k])})
  IN IF TokenizerRaises(cuts)
     THEN /\ call' = [op |-> "SentimentAnalyzer.analyze_comments",
                      df_in |-> df,
                      raised |-> "TokenizerError",
                      cuts |-> fail_at]
          /\ UNCHANGED <<lexicon, stopwords, sentence, df, fail_at>>
     ELSE /\ df' = annotated
          /\ call' = [op |-> "SentimentAnalyzer.analyze_comments",
                      df_in |-> df,
                      raised |-> "none",
                      ret_df |-> annotated,
                      sentiment_counts |->
                        ValueCounts(annotated["sentiment_label"]),
                      cuts |-> cuts]
          /\ UNCHANGED <<lexicon, stopwords, sentence, fail_at>>

SentimentAnalyzeComments == SentimentAnalyzeCommentsCall /\ UNCHANGED first

\* a miner that adds the words it has reported to its stopword set
TextMinerAnalyzeCommentsCall_LearnsStopwords ==
  \E top_n \in 0..MaxTopN :
    LET ret == TextMiner_analyze_comments(stopwords, df, top_n)
    IN /\ call' = [op |-> "TextMiner.analyze_comments",
                   df_in |-> df,
                   top_n |-> top_n,
                   raised |-> "none",
                   ret |-> ret,
                   cuts |-> TextMiner_analyze_comments_cuts(df)]
       /\ stopwords' = IF ret = EmptyResult THEN stopwords
                       ELSE stopwords \cup
                              {ret.top_words[k][1] : k \in DOMAIN ret.top_words}
       /\ UNCHANGED <<lexicon, sentence, df, fail_at>>

\* miner.analyze_comments(df, top_n=top_n)
TextMinerAnalyzeCommentsCall ==
  LET cuts == TextMiner_analyze_comments_cuts(df)
  IN \E top_n \in 0..MaxTopN :
       /\ call' = IF TokenizerRaises(cuts)
                  THEN [op |-> "TextMiner.analyze_comments",
                        df_in |-> df,
                        top_n |-> top_n,
                        raised |-> "TokenizerError",
                        cuts |-> fail_at]
                  ELSE [op |-> "TextMiner.analyze_comments",
                        df_in |-> df,
                        top_n |-> top_n,
                        raised |-> "none",
                        ret |-> TextMiner_analyze_comments(stopwords, df, top_n),
                        cuts |-> cuts]
       /\ UNCHANGED <<lexicon, stopwords, sentence, df, fail_at>>

TextMinerAnalyzeComments == TextMinerAnalyzeCommentsCall /\ UNCHANGED first

\* miner.find_hot_topics(df, min_count=min_count)
FindHotTopicsCall ==
  LET cuts == TextMiner_analyze_comments_cuts(df)
  IN \E min_count \in 1..MaxTopN :
       LET outcome == find_hot_topics(stopwords, df, min_count)
       IN /\ call' = IF TokenizerRaises(cuts)
                     THEN [op |-> "find_hot_topics",
                           df_in |-> df,
                           min_count |-> min_count,
                           raised |-> "TokenizerError",
                           cuts |-> fail_at]
                     ELSE [op |-> "find_hot_topics",
                           df_in |-> df,
                           min_count |-> min_count,
                           raised |-> outcome.raised,
                           ret |-> outcome.topics,
                           cuts |-> cuts]
          /\ UNCHANGED <<lexicon, stopwords, sentence, df, fail_at>>

FindHotTopics == FindHotTopicsCall /\ UNCHANGED first

Next ==
  \/ SentimentAnalyzeComments
  \/ TextMinerAnalyzeComments
  \/ FindHotTopics

Spec == Init /\ [][Next]_vars

\* the DataFrames over MineVocab, mined
NextMine == TextMinerAnalyzeComments

SpecMine == InitMine /\ [][NextMine]_vars

(***************************************************************************)
(* Claims about analyze_sentence and classify_sentiment (SpecSentence).    *)
(***************************************************************************)
Labels == {"Positive", "Neutral", "Negative"}

\* the places of the sentiment words (the tokens the loop scores)
SentimentPositions(words) ==
  {i \in DOMAIN words :
     /\ words[i] \notin negation_words
     /\ words[i] \in positive_words \cup negative_words}

InsertAt(words, i, x) ==
  SubSeq(words, 1, i - 1) \o <<x>> \o SubSeq(words, i, Len(words))

\* C1: whatever the input, the score analyze_sentence returns lies in the
\* closed interval [-1, 1].
C1_ScoreInUnitInterval ==
  call.op = "analyze_sentence" =>
    /\ call.ret[2] > 0
    /\ -call.ret[2] <= call.ret[1]
    /\ call.ret[1] <= call.ret[2]

\* a text of negation markers, sentiment words and other tokens is scored,
\* and the score is one of the ends of the interval or strictly inside it
C1_Witness ==
  /\ call.op = "analyze_sentence"
  /\ IsStr(call.text)
  /\ \E i, j, k \in DOMAIN call.text.words :
       /\ call.text.words[i] \in negation_words
       /\ call.text.words[j] \in positive_words \cup negative_words
       /\ call.text.words[k] = W_shipin
  /\ call.ret[1] # 0

\* C2: classify_sentiment answers Positive exactly for score > 0.1, Negative
\* exactly for score < -0.1 and Neutral otherwise, so 0.1 and -0.1 are
\* Neutral, and every score has exactly one of the three labels.
C2_ClassifyThresholds ==
  call.op = "classify_sentiment" =>
    LET n == call.score[1]
        d == call.score[2]
    IN /\ call.ret \in Labels
       /\ (call.ret = "Positive") <=> (10 * n > d)
       /\ (call.ret = "Negative") <=> (10 * n < -d)
       /\ (call.ret = "Neutral") <=> (10 * n <= d /\ 10 * n >= -d)

\* the score exactly 0.1 is classified, as Neutral
C2_Witness ==
  /\ call.op = "classify_sentiment"
  /\ call.score = Frac(10000, 100000)
  /\ call.ret = "Neutral"

\* C3: a value that is not a str, and a str that tokenizes to no token, get
\* score 0 and label Neutral; for a non-str jieba.cut is not called.
C3_NonTextAndEmptyAreNeutral ==
  (/\ call.op = "analyze_sentence"
   /\ (~IsStr(call.text) \/ call.text.words = <<>>))
  => /\ call.ret[1] = 0
     /\ call.ret[2] > 0
     /\ classify_sentiment(call.ret) = "Neutral"
     /\ (~IsStr(call.text) => call.cuts = 0)
     /\ (IsStr(call.text) => call.cuts = 1)

\* a list has been scored
C3_Witness ==
  /\ call.op = "analyze_sentence"
  /\ call.text = AList
  /\ call.cuts = 0

\* C4 as claimed: in a token sequence whose only sentiment token is a
\* positive word, a negation marker inserted right before that word makes the
\* score strictly lower.
C4_NegationLowersScore ==
  (call.op = "analyze_sentence" /\ IsStr(call.text)) =>
    LET words == call.text.words
    IN \A i \in DOMAIN words :
         (SentimentPositions(words) = {i} /\ words[i] \in positive_words) =>
           \A m \in negation_words :
             FLt(analyze_sentence(lexicon, Str(InsertAt(words, i, m))), call.ret)

\* C4 amended: the same, for sequences with no negation marker before the
\* positive word; the score with the marker is then below zero as well.
C4_NegationLowersScoreUnnegated ==
  (call.op = "analyze_sentence" /\ IsStr(call.text)) =>
    LET words == call.text.words
    IN \A i \in DOMAIN words :
         (/\ SentimentPositions(words) = {i}
          /\ words[i] \in positive_words
          /\ \A j \in 1..(i - 1) : words[j] \notin negation_words) =>
           \A m \in negation_words :
             LET negated == analyze_sentence(lexicon, Str(InsertAt(words, i, m)))
             IN /\ FLt(negated, call.ret)
                /\ FLt(negated, Frac(0, 1))
                /\ classify_sentiment(negated) # "Positive"

\* a sequence with one positive word, other tokens before and after it and no
\* negation marker before it, is scored positive
C4_Witness ==
  /\ call.op = "analyze_sentence"
  /\ IsStr(call.text)
  /\ \E i \in DOMAIN call.text.words :
       /\ 1 < i /\ i < Len(call.text.words)
       /\ SentimentPositions(call.text.words) = {i}
       /\ call.text.words[i] \in positive_words
       /\ \A j \in 1..(i - 1) : call.text.words[j] \notin negation_words
  /\ FLt(Frac(0, 1), call.ret)

(***************************************************************************)
(* Claims about the corpus-wide calls (Spec, SpecMine).                    *)
(***************************************************************************)
RECURSIVE SumOver(_, _)
SumOver(f, S) ==
  IF S = {} THEN 0
  ELSE LET x == CHOOSE y \in S : TRUE IN f[x] + SumOver(f, S \ {x})

\* the segmented tokens of the frame, over its cells that are not None, in
\* the order of the corpus
Segmented(frame) ==
  LET cells == DropNa(frame["content"])
  IN Concat([k \in DOMAIN cells |-> cells[k].words])

Occurrences(seq, x) == Cardinality({k \in DOMAIN seq : seq[k] = x})

\* the count stored for word in a Counter, 0 when it is no key
CountOf(counter, word) ==
  IF \E k \in DOMAIN counter : counter[k][1] = word
  THEN counter[CHOOSE k \in DOMAIN counter : counter[k][1] = word][2]
  ELSE 0

Keys(counter) == {counter[k][1] : k \in DOMAIN counter}

Mined == call.op = "TextMiner.analyze_comments" /\ call.ret # EmptyResult

\* C5 as claimed: after SentimentAnalyzer.analyze_comments returns, the
\* caller's DataFrame has the records and the fields it had before the call.
C5_InputNotMutated ==
  call.op = "SentimentAnalyzer.analyze_comments" =>
    /\ DOMAIN df = DOMAIN call.df_in
    /\ df = call.df_in

\* C6: SentimentAnalyzer.analyze_comments gives every input comment, in
\* input order, one score equal to analyze_sentence of its text and one label
\* equal to classify_sentiment of that score, and the counts of the returned
\* label distribution add up to the number of comments.
C6_EveryCommentScoredOnce ==
  call.op = "SentimentAnalyzer.analyze_comments" =>
    LET cells == call.df_in["content"]
        scores == call.ret_df["sentiment_score"]
        labels == call.ret_df["sentiment_label"]
        counts == call.sentiment_counts
    IN /\ call.ret_df["content"] = cells
       /\ DOMAIN scores = DOMAIN cells
       /\ DOMAIN labels = DOMAIN cells
       /\ \A k \in DOMAIN cells :
            /\ FEq(scores[k], analyze_sentence(lexicon, cells[k]))
            /\ labels[k] \in Labels
            /\ labels[k] = classify_sentiment(scores[k])
       /\ DOMAIN counts \subseteq Labels
       /\ \A l \in DOMAIN counts : counts[l] = Occurrences(labels, l)
       /\ SumOver(counts, DOMAIN counts) = Len(cells)

\* two comments with the same label and one with another have been scored
C6_Witness ==
  /\ call.op = "SentimentAnalyzer.analyze_comments"
  /\ Len(call.df_in["content"]) >= 2
  /\ \E l \in DOMAIN call.sentiment_counts : call.sentiment_counts[l] >= 2

\* C7: in a non-empty result of TextMiner.analyze_comments the counts of
\* all_word_counts add up to total_words, unique_words is the number of its
\* keys, and every stored count is at least 1.
C7_FrequencyTableConsistent ==
  Mined =>
    LET counts == call.ret.all_word_counts
    IN /\ SumOver([k \in DOMAIN counts |-> counts[k][2]], DOMAIN counts)
            = call.ret.total_words
       /\ call.ret.unique_words = Cardinality(Keys(counts))
       /\ Len(counts) = Cardinality(Keys(counts))
       /\ \A k \in DOMAIN counts : counts[k][2] >= 1

\* a table with a word counted twice and another word
C7_Witness ==
  /\ Mined
  /\ call.ret.unique_words >= 2
  /\ \E k \in DOMAIN call.ret.all_word_counts :
       call.ret.all_word_counts[k][2] >= 2

\* the three tests of the claim, on the token as segmented
PassesThreeTests(word) ==
  /\ Len(word) >= 2
  /\ ~(\A k \in DOMAIN word : IsDigit(word[k]))
  /\ word \notin stopwords

\* C8 as claimed: no key of all_word_counts is shorter than 2 characters, all
\* digits or a stopword, and every segmented token that passes these three
\* tests is counted once per occurrence.
C8_ThreeTestsDecide ==
  Mined =>
    LET counts == call.ret.all_word_counts
        seg == Segmented(call.df_in)
    IN /\ \A w \in Keys(counts) : PassesThreeTests(w)
       /\ \A k \in DOMAIN seg :
            PassesThreeTests(seg[k]) =>
              CountOf(counts, seg[k]) = Occurrences(seg, seg[k])

\* C8 amended: the three tests are made on the token with the whitespace at
\* its ends stripped; no key fails them, and every segmented token whose
\* stripped form passes them is counted, under the stripped form, once per
\* occurrence, and nothing else is a key.
C8_ThreeTestsOnStrippedDecide ==
  Mined =>
    LET counts == call.ret.all_word_counts
        seg == Segmented(call.df_in)
        stripped == [k \in DOMAIN seg |-> Strip(seg[k])]
    IN /\ \A w \in Keys(counts) :
            PassesThreeTests(w) /\ \E k \in DOMAIN seg : stripped[k] = w
       /\ \A k \in DOMAIN seg :
            PassesThreeTests(stripped[k]) =>
              CountOf(counts, stripped[k]) = Occurrences(stripped, stripped[k])

\* a corpus with a kept word, a stopword of two characters and the token
\* "\r\n" has been mined
C8_Witness ==
  /\ Mined
  /\ \E i, j, k \in DOMAIN Segmented(call.df_in) :
       /\ Segmented(call.df_in)[i] = W_yige
       /\ Segmented(call.df_in)[j] = W_crlf
       /\ Segmented(call.df_in)[k] \in Keys(call.ret.all_word_counts)

\* the first place of word among the stripped tokens of the corpus
FirstSeen(frame, word) ==
  LET seg == Segmented(frame)
  IN CHOOSE k \in DOMAIN seg :
       /\ Strip(seg[k]) = word
       /\ \A j \in 1..(k - 1) : Strip(seg[j]) # word

\* p ranks before q: a higher count, or the same count and seen first
RanksBefore(frame, p, q) ==
  \/ p[2] > q[2]
  \/ (p[2] = q[2] /\ FirstSeen(frame, p[1]) < FirstSeen(frame, q[1]))

\* C9: top_words of the table TextMiner.analyze_comments(top_n=N) returns is
\* the first min(N, number of distinct kept tokens) entries of the
\* <<token, count>> pairs ordered by count descending, equal counts by first
\* occurrence in the corpus; it never has more than N entries.
C9_TopWordsRanking ==
  Mined =>
    LET top == call.ret.top_words
        counts == call.ret.all_word_counts
        entries == {counts[k] : k \in DOMAIN counts}
        n == call.top_n
    IN /\ Len(top) = (IF n < Cardinality(entries) THEN n ELSE Cardinality(entries))
       /\ Len(top) <= n
       /\ \A a \in DOMAIN top : top[a] \in entries
       /\ \A a, b \in DOMAIN top :
            a < b => RanksBefore(call.df_in, top[a], top[b])
       /\ \A e \in entries :
            (\A a \in DOMAIN top : top[a] # e) =>
              \A a \in DOMAIN top : RanksBefore(call.df_in, top[a], e)

\* two words of equal count, cut to the one seen first
C9_Witness ==
  /\ Mined
  /\ call.top_n = 1
  /\ call.ret.unique_words = 2
  /\ call.ret.all_word_counts[1][2] = call.ret.all_word_counts[2][2]
  /\ call.ret.top_words = <<call.ret.all_word_counts[1]>>

\* C10 as claimed: find_hot_topics(min_count=k) returns one topic for each
\* entry of the top-50 ranking whose count is at least k and no other, in the
\* order of the ranking, with occurrence_count the count of the entry.
C10_TopicsAreTheHotEntries ==
  call.op = "find_hot_topics" =>
    LET mined == TextMiner_analyze_comments(stopwords, call.df_in, HotTopicsTopN)
        ranking == IF mined = EmptyResult THEN <<>> ELSE mined.top_words
        hot == {a \in DOMAIN ranking : ranking[a][2] >= call.min_count}
    IN /\ call.raised = "none"
       /\ Len(call.ret) = Cardinality(hot)
       /\ Len(call.ret) <= HotTopicsTopN
       /\ \A k \in DOMAIN call.ret :
            /\ call.ret[k].occurrence_count >= call.min_count
            /\ \E a \in hot :
                 /\ Cardinality({b \in hot : b < a}) = k - 1
                 /\ call.ret[k].keyword = ranking[a][1]
                 /\ call.ret[k].occurrence_count = ranking[a][2]

(***************************************************************************)
(* Keywords that hold a regular-expression metacharacter.                  *)
(***************************************************************************)

W_125 == <<49, 50, 53>>          \* "125"

TopicVocab == {W_1p5, W_125, W_xihuan}

\* jieba yields a run of ASCII digits and "." as one token, so two such
\* tokens never stand next to each other in one segmentation
IsNumeric(word) == \A j \in DOMAIN word : IsDigit(word[j]) \/ word[j] = 46

WellSegmented(cell) ==
  \A j \in DOMAIN cell.words :
    j > 1 => ~(IsNumeric(cell.words[j - 1]) /\ IsNumeric(cell.words[j]))

\* the DataFrames over TopicVocab
InitTopics ==
  /\ Constructed
  /\ df \in {Frame(cells) :
               cells \in {c \in Corpora(TopicVocab, MaxComments, MaxTokens) :
                            \A k \in DOMAIN c : WellSegmented(c[k])}}

NextTopics == FindHotTopics

SpecTopics == InitTopics /\ [][NextTopics]_vars

\* word occurs in t as a literal substring
LiteralSubstring(word, t) ==
  \E k \in 1..(Len(t) + 1) :
    /\ k + Len(word) - 1 <= Len(t)
    /\ \A j \in DOMAIN word : t[k + j - 1] = word[j]

\* the rows of the frame whose cell is a str that holds word literally
LiteralRows(frame, word) ==
  {k \in DOMAIN frame["content"] :
     /\ IsStr(frame["content"][k])
     /\ LiteralSubstring(word, RawText(frame["content"][k]))}

\* C11 as claimed: for every topic find_hot_topics returns,
\* related_comment_count is the number of comments whose raw text holds the
\* keyword as a literal substring, and sample_comments are the first
\* min(3, related_comment_count) of those comments in the order of the corpus.
C11_RelatedAreLiteralSubstringMatches ==
  (call.op = "find_hot_topics" /\ call.raised = "none") =>
    \A k \in DOMAIN call.ret :
      LET topic == call.ret[k]
          cells == call.df_in["content"]
          rows == LiteralRows(call.df_in, topic.keyword)
          n == IF Cardinality(rows) < SampleSize
               THEN Cardinality(rows) ELSE SampleSize
      IN /\ topic.related_comment_count = Cardinality(rows)
         /\ Len(topic.sample_comments) = n
         /\ Len(topic.sample_comments) <= SampleSize
         /\ \A a \in DOMAIN topic.sample_comments :
              \E r \in rows :
                /\ Cardinality({q \in rows : q < r}) = a - 1
                /\ topic.sample_comments[a] = cells[r]

(***************************************************************************)
(* Repeated calls on the same components.                                  *)
(***************************************************************************)

RepeatVocab == {W_xihuan, W_shipin}

RepeatSentence == Str(<<W_bu, W_xihuan>>)

\* the DataFrames over RepeatVocab whose cells are the float 1.5 or a str
\* that is not empty
RepeatCorpora ==
  {c \in Corpora(RepeatVocab, MaxComments, MaxTokens) :
     \A k \in DOMAIN c : c[k].words # <<>>}

\* the history variable takes the first call of the behaviour
Remember == first' = IF first.op = "none" THEN call' ELSE first

InitRepeat ==
  /\ ConstructedLexicon
  /\ stopwords = base_stopwords
  /\ sentence = RepeatSentence
  /\ df \in {Frame(cells) : cells \in RepeatCorpora}
  /\ call = [op |-> "constructed"]
  /\ fail_at = 0
  /\ first = [op |-> "none"]

NextRepeat ==
  \/ AnalyzeSentenceCall /\ Remember
  \/ SentimentAnalyzeCommentsCall /\ Remember
  \/ TextMinerAnalyzeCommentsCall /\ Remember
  \/ FindHotTopicsCall /\ Remember

SpecRepeat == InitRepeat /\ [][NextRepeat]_vars

\* a and b are calls of the same operation of score, mine and
\* find_hot_topics with the same text or corpus and the same parameter
SameArguments(a, b) ==
  /\ a.op = b.op
  /\ CASE a.op = "analyze_sentence" -> a.text = b.text
       [] a.op = "TextMiner.analyze_comments" ->
            /\ a.df_in["content"] = b.df_in["content"]
            /\ a.top_n = b.top_n
       [] a.op = "find_hot_topics" ->
            /\ a.df_in["content"] = b.df_in["content"]
            /\ a.min_count = b.min_count
       [] OTHER -> FALSE

\* C12: a call of analyze_sentence, TextMiner.analyze_comments or
\* find_hot_topics with the arguments of the first call of the behaviour,
\* after whatever calls were made in between on the same components, has the
\* outcome of that first call: the same exception or the same result, the
\* order of equal counts in top_words included.
C12_RepeatedCallSameResult ==
  SameArguments(first, call) =>
    /\ call.raised = first.raised
    /\ call.ret = first.ret

\* the corpus mined, annotated by analyzer.analyze_comments, and mined again
\* with a cut that leaves one of two words of equal count
C12_Witness ==
  /\ SameArguments(first, call)
  /\ call.op = "TextMiner.analyze_comments"
  /\ "sentiment_label" \notin DOMAIN first.df_in
  /\ "sentiment_label" \in DOMAIN call.df_in
  /\ call.top_n = 1
  /\ call.ret # EmptyResult
  /\ call.ret.unique_words = 2
  /\ call.ret.all_word_counts[1][2] = call.ret.all_word_counts[2][2]

(***************************************************************************)
(* Every operation of the two components, called in any order.             *)
(***************************************************************************)
\* top_n of line 125
WordcloudTopN == 100
\* the threshold of line 131
WordcloudMinCount == 2

\* the return value of TextMiner.generate_wordcloud_data: the dict as the
\* sequence of its items
generate_wordcloud_data(sw, frame) ==
  LET word_counts == TextMiner_analyze_comments(sw, frame, WordcloudTopN)
  IN IF "all_word_counts" \in DOMAIN word_counts
     THEN SelectSeq(word_counts.all_word_counts,
                    LAMBDA e : e[2] >= WordcloudMinCount)
     ELSE <<>>

\* lines 52-53 and 56-61: a value that is not a str cleans to ""
clean_text_of(value) ==
  IF ~IsStr(value) THEN <<>> ELSE clean_text(RawText(value))

\* miner.clean_text(sentence)
CleanTextCall ==
  /\ call' = [op |-> "clean_text", text |-> sentence,
              raised |-> "none",
              ret |-> clean_text_of(sentence)]
  /\ UNCHANGED <<lexicon, stopwords, sentence, df, fail_at>>

CleanText == CleanTextCall /\ UNCHANGED first

\* a word cloud that drops the rare words for good
GenerateWordcloudDataCall_DropsRareWords ==
  LET word_counts == TextMiner_analyze_comments(stopwords, df, WordcloudTopN)
  IN /\ call' = [op |-> "generate_wordcloud_data",
                 df_in |-> df,
                 raised |-> "none",
                 ret |-> generate_wordcloud_data(stopwords, df),
                 cuts |-> TextMiner_analyze_comments_cuts(df)]
     /\ stopwords' =
          IF word_counts = EmptyResult THEN stopwords
          ELSE stopwords \cup
                 {word_counts.all_word_counts[k][1] :
                    k \in {j \in DOMAIN word_counts.all_word_counts :
                             word_counts.all_word_counts[j][2] < WordcloudMinCount}}
     /\ UNCHANGED <<lexicon, sentence, df, fail_at>>

\* miner.generate_wordcloud_data(df)
GenerateWordcloudDataCall ==
  LET cuts == TextMiner_analyze_comments_cuts(df)
  IN /\ call' = IF TokenizerRaises(cuts)
                THEN [op |-> "generate_wordcloud_data",
                      df_in |-> df,
                      raised |-> "TokenizerError",
                      cuts |-> fail_at]
                ELSE [op |-> "generate_wordcloud_data",
                      df_in |-> df,
                      raised |-> "none",
                      ret |-> generate_wordcloud_data(stopwords, df),
                      cuts |-> cuts]
     /\ UNCHANGED <<lexicon, stopwords, sentence, df, fail_at>>

GenerateWordcloudData == GenerateWordcloudDataCall /\ UNCHANGED first

NextAll ==
  \/ AnalyzeSentence
  \/ SentimentAnalyzeComments
  \/ ClassifySentiment
  \/ CleanText
  \/ TextMinerAnalyzeComments
  \/ GenerateWordcloudData
  \/ FindHotTopics

SpecAll == InitRepeat /\ [][NextAll]_vars

\* C13: whatever calls of analyze_sentence, analyzer.analyze_comments,
\* classify_sentiment, clean_text, miner.analyze_comments,
\* generate_wordcloud_data and find_hot_topics have been made, the four word
\* lists of the analyzer and the stopword set of the miner are the ones
\* construction built.
C13_LexiconAndStopwordsNeverChange ==
  /\ positive_words = Lexicon_positive_words
  /\ negative_words = Lexicon_negative_words
  /\ intensity_words = Lexicon_intensity_words
  /\ negation_words = Lexicon_negation_words
  /\ stopwords = base_stopwords

\* a word cloud made of a DataFrame that analyzer.analyze_comments has
\* annotated, with a rare word left out of it
C13_Witness ==
  /\ call.op = "generate_wordcloud_data"
  /\ "sentiment_label" \in DOMAIN call.df_in
  /\ call.ret # <<>>
  /\ Len(call.ret) <
       Len(TextMiner_analyze_comments(stopwords, call.df_in, 0).all_word_counts)

(***************************************************************************)
(* Comments whose text is missing or is not a str.                         *)
(***************************************************************************)
\* the frame without the rows whose cell is not a str
StrRowsOnly(frame) ==
  Frame(SelectSeq(frame["content"], LAMBDA cell : IsStr(cell)))

\* the frequency table of a result of TextMiner.analyze_comments
WordCountsOf(ret) == IF ret = EmptyResult THEN <<>> ELSE ret.all_word_counts

\* C14 as claimed: a corpus-wide call on a DataFrame where the text of
\* exactly one comment is missing or is not a str does not raise because of
\* that comment: analyzer.analyze_comments gives it the score 0 and the
\* label Neutral, TextMiner.analyze_comments counts the tokens of the other
\* comments only, and in find_hot_topics it is among the related comments
\* of no topic; the other comments are processed as without it.
C14_InvalidCommentAbsorbed ==
  LET cells == call.df_in["content"]
      invalid == {k \in DOMAIN cells : ~IsStr(cells[k])}
      others == StrRowsOnly(call.df_in)
  IN (call.op \in {"SentimentAnalyzer.analyze_comments",
                   "TextMiner.analyze_comments", "find_hot_topics"}
      /\ Cardinality(invalid) = 1) =>
       CASE call.op = "SentimentAnalyzer.analyze_comments" ->
              /\ call.raised = "none"
              /\ \A k \in DOMAIN cells :
                   /\ FEq(call.ret_df["sentiment_score"][k],
                          IF k \in invalid THEN Frac(0, 1)
                          ELSE analyze_sentence(lexicon, cells[k]))
                   /\ k \in invalid =>
                        call.ret_df["sentiment_label"][k] = "Neutral"
         [] call.op = "TextMiner.analyze_comments" ->
              /\ call.raised = "none"
              /\ WordCountsOf(call.ret) =
                   WordCountsOf(TextMiner_analyze_comments(stopwords, others,
                                                           call.top_n))
         [] call.op = "find_hot_topics" ->
              /\ call.raised =
                   find_hot_topics(stopwords, others, call.min_count).raised
              /\ call.raised = "none" =>
                   \A t \in DOMAIN call.ret :
                     \A a \in DOMAIN call.ret[t].sample_comments :
                       IsStr(call.ret[t].sample_comments[a])

(***************************************************************************)
(* Corpora that yield nothing.                                             *)
(***************************************************************************)
\* no comment of the frame has a character that cleaning keeps
NoCleanedText(frame) ==
  \A k \in DOMAIN frame["content"] :
    LET cell == frame["content"][k]
    IN cell.kind # "none" =>
         \A j \in DOMAIN RawText(cell) : ~IsWordChar(RawText(cell)[j])

\* no segmented token of the frame passes the filter of the miner
NoTokenSurvives(frame) ==
  \A k \in DOMAIN Segmented(frame) :
    ~PassesThreeTests(Strip(Segmented(frame)[k]))

ZeroValuedResult ==
  [top_words |-> <<>>, total_words |-> 0, unique_words |-> 0,
   all_word_counts |-> <<>>]

MaxLines == 3

L_word == <<21704, 21704, 10>>            \* "哈哈\n"
L_padded == <<32, 21834, 32, 10>>         \* " 啊 \n"
L_blank == <<32, 10>>                     \* " \n"

LineVocab == {L_word, L_padded, L_blank}

\* the argument and the file it names: arg is "None", "" or a path; a file
\* at the path is absent, cannot be opened, stops decoding as UTF-8 after
\* its first good lines, or reads to the end
StopwordFiles ==
  {[arg |-> a, file |-> "absent", lines |-> <<>>, good |-> 0] :
     a \in {"None", "", "path"}}
  \cup {[arg |-> "path", file |-> "unreadable", lines |-> ls, good |-> 0] :
          ls \in SeqsUpTo(LineVocab, MaxLines)}
  \cup UNION {{[arg |-> "path", file |-> "malformed", lines |-> ls, good |-> g] :
                 g \in 0..Len(ls)} : ls \in SeqsUpTo(LineVocab, MaxLines)}
  \cup {[arg |-> "path", file |-> "readable", lines |-> ls, good |-> Len(ls)] :
          ls \in SeqsUpTo(LineVocab, MaxLines)}

\* the module imports pandas, jieba, jieba.analyse, Counter and re: the name
\* os is not bound in it
OsImported == FALSE

\* lines 41-44 over the lines read: the stripped lines that are not empty
StrippedLines(lines) ==
  {Strip(lines[k]) : k \in DOMAIN lines} \ {<<>>}

\* the outcome of load_stopwords: the exception that leaves it ("none" when
\* it returns) and the set returned.  A path that is not empty makes line 38
\* evaluate os.path.exists, outside the try of line 39.
load_stopwords(f) ==
  IF f.arg \in {"None", ""}
  THEN [raised |-> "none", stopwords |-> base_stopwords]
  ELSE IF ~OsImported
  THEN [raised |-> "NameError", stopwords |-> {}]
  ELSE IF f.file = "absent" \/ f.file = "unreadable"
  THEN [raised |-> "none", stopwords |-> base_stopwords]
  ELSE [raised |-> "none",
        stopwords |-> base_stopwords
                        \cup StrippedLines(SubSeq(f.lines, 1, f.good))]

\* no component is constructed yet
InitConstruct ==
  /\ ConstructedLexicon
  /\ stopwords = {}
  /\ sentence = None
  /\ df = Frame(<<>>)
  /\ call = [op |-> "start"]
  /\ fail_at = 0
  /\ first = [op |-> "none"]

\* miner = TextMiner(stopwords_file): an exception of load_stopwords leaves
\* __init__ and no miner exists
ConstructTextMiner ==
  \E f \in StopwordFiles :
    LET outcome == load_stopwords(f)
    IN /\ call' = [op |-> "TextMiner", stopwords_file |-> f,
                   raised |-> outcome.raised]
       /\ stopwords' = outcome.stopwords
       /\ UNCHANGED <<lexicon, sentence, df, fail_at, first>>

NextConstruct == ConstructTextMiner

SpecConstruct == InitConstruct /\ [][NextConstruct]_vars

\* C16 as claimed: TextMiner(stopwords_file=...) always constructs a miner;
\* with a file that is absent, cannot be opened or is malformed its stopword
\* set contains the whole base set, with a file that reads to the end it is
\* the base set united with the stripped lines of the file that are not
\* blank.
C16_StopwordFileNeverAborts ==
  call.op = "TextMiner" =>
    LET f == call.stopwords_file
    IN /\ call.raised = "none"
       /\ base_stopwords \subseteq stopwords
       /\ (f.arg = "path" /\ f.file = "readable") =>
            stopwords = base_stopwords \cup StrippedLines(f.lines)

(***************************************************************************)
(* jieba.cut raises.                                                       *)
(***************************************************************************)
FailureVocab == {W_xihuan, W_bu}

\* jieba.cut raises at one of the first MaxComments invocations of a call
InitFailure ==
  /\ ConstructedLexicon
  /\ stopwords = base_stopwords
  /\ sentence = RepeatSentence
  /\ df \in {Frame(cells) : cells \in Corpora(FailureVocab, MaxComments, MaxTokens)}
  /\ call = [op |-> "constructed"]
  /\ fail_at \in 1..MaxComments
  /\ first = [op |-> "none"]

NextFailure ==
  \/ AnalyzeSentence
  \/ SentimentAnalyzeComments
  \/ TextMinerAnalyzeComments
  \/ FindHotTopics

SpecFailure == InitFailure /\ [][NextFailure]_vars

\* the invocations of jieba.cut the call makes when none of them raises
CutsNeeded ==
  CASE call.op = "analyze_sentence" -> IF IsStr(call.text) THEN 1 ELSE 0
    [] call.op = "SentimentAnalyzer.analyze_comments" ->
         Cardinality({k \in DOMAIN call.df_in["content"] :
                        IsStr(call.df_in["content"][k])})
    [] call.op \in {"TextMiner.analyze_comments", "find_hot_topics"} ->
         IF NoCleanedText(call.df_in) THEN 0
         ELSE Len(DropNa(call.df_in["content"]))
    [] OTHER -> 0

\* C17: when jieba.cut raises inside analyze_sentence, either
\* analyze_comments or find_hot_topics, the call raises that error, jieba.cut
\* is not invoked after the invocation that raised, the call has no return
\* value, and after analyzer.analyze_comments the caller's DataFrame is the
\* one passed in, without the two sentiment columns.
C17_TokenizerFailureSurfaces ==
  fail_at \in 1..CutsNeeded =>
    /\ call.raised = "TokenizerError"
    /\ call.cuts = fail_at
    /\ DOMAIN call \cap {"ret", "ret_df", "sentiment_counts"} = {}
    /\ call.op = "SentimentAnalyzer.analyze_comments" =>
         /\ df = call.df_in
         /\ DOMAIN df = {"content"}

\* jieba.cut raised at the second comment of analyzer.analyze_comments
C17_Witness ==
  /\ call.op = "SentimentAnalyzer.analyze_comments"
  /\ call.raised = "TokenizerError"
  /\ call.cuts = 2
  /\ Len(df["content"]) >= 2
  /\ DOMAIN df = {"content"}

(***************************************************************************)
(* The score as a formula of the token sequence (SpecSentence).            *)
(***************************************************************************)
\* a negation marker stands before place i with no sentiment word between
\* the marker and i
NegationPending(words, i) ==
  \E j \in 1..(i - 1) :
    /\ words[j] \in negation_words
    /\ \A m \in (j + 1)..(i - 1) : m \notin SentimentPositions(words)

\* the modifier stored for the word in the intensity table, 1.0 when it is no
\* key, in tenths
ModifierOf(word) ==
  LET hits == {p \in intensity_words : p[1] = word}
  IN IF hits = {} THEN 10 ELSE (CHOOSE p \in hits : TRUE)[2]

\* what the sentiment word at place i adds to the sum, in tenths
TermAt(words, i) ==
  (IF words[i] \in positive_words THEN 1 ELSE -1)
  * (IF NegationPending(words, i) THEN -1 ELSE 1)
  * ModifierOf(words[i])

\* the sum S over the sentiment words, in tenths
SumOfTerms(words) ==
  SumOver([i \in SentimentPositions(words) |-> TermAt(words, i)],
          SentimentPositions(words))

\* C18: for every sequence of one or more tokens the score is
\* clamp(S / token_count, -1, 1), where token_count counts every token and S
\* adds, for each sentiment word, +1 or -1 (the sign flipped when the
\* negation flag is set at that word) times the intensity modifier stored for
\* that same word, 1.0 when it has none; no other token adds to S.
C18_ScoreIsClampedMeanOfTerms ==
  (call.op = "analyze_sentence" /\ IsStr(call.text) /\ call.text.words # <<>>) =>
    LET words == call.text.words
        n == Len(words)
        S == SumOfTerms(words)
    IN FEq(call.ret,
           IF S > 10 * n THEN Frac(1, 1)
           ELSE IF S < -(10 * n) THEN Frac(-1, 1)
           ELSE Frac(S, 10 * n))

\* a negated and an unnegated sentiment word with an intensity word and a
\* neutral token among four tokens
C18_Witness ==
  /\ call.op = "analyze_sentence"
  /\ IsStr(call.text)
  /\ Len(call.text.words) = 4
  /\ \E i, j \in SentimentPositions(call.text.words) :
       /\ NegationPending(call.text.words, i)
       /\ ~NegationPending(call.text.words, j)
  /\ \E k \in DOMAIN call.text.words : ModifierOf(call.text.words[k]) # 10
  /\ FEq(call.ret, Frac(SumOfTerms(call.text.words), 40))

(***************************************************************************)
(* How far a negation marker reaches (SpecSentence).                       *)
(***************************************************************************)
\* what the loop adds to the sum at place i, in tenths
Contribution(words, i) ==
  SentenceLoop(lexicon, SubSeq(words, 1, i), 1, 0, FALSE)
    - SentenceLoop(lexicon, SubSeq(words, 1, i - 1), 1, 0, FALSE)

\* the sentiment word at place i is added with its sign reversed
Flipped(words, i) ==
  IF words[i] \in positive_words
  THEN Contribution(words, i) < 0
  ELSE Contribution(words, i) > 0

\* the score is on the other side of 0 than the one sentiment word at i
ScoredReversed(words, i) ==
  IF words[i] \in positive_words
  THEN FLt(call.ret, Frac(0, 1))
  ELSE FLt(Frac(0, 1), call.ret)

\* C19 as claimed: a sentiment word is flipped only when the token
\* immediately before it is a negation marker; when the token after a marker
\* is no sentiment word, the negation is lost and flips no later word.
C19_NegationReachesNextTokenOnly ==
  (call.op = "analyze_sentence" /\ IsStr(call.text)) =>
    LET words == call.text.words
    IN \A i \in SentimentPositions(words) :
         /\ Flipped(words, i) <=> (i > 1 /\ words[i - 1] \in negation_words)
         /\ SentimentPositions(words) = {i} =>
              (ScoredReversed(words, i) <=>
                 (i > 1 /\ words[i - 1] \in negation_words))

\* C19 amended: the negation a marker sets lasts until the next sentiment
\* word.  A sentiment word is flipped exactly when a marker stands before it
\* with no sentiment word between the marker and it; tokens that are neither
\* markers nor sentiment words do not clear the negation, the sentiment word
\* clears it.
C19_NegationReachesNextSentimentWord ==
  (call.op = "analyze_sentence" /\ IsStr(call.text)) =>
    LET words == call.text.words
    IN \A i \in SentimentPositions(words) :
         /\ Flipped(words, i) <=> NegationPending(words, i)
         /\ SentimentPositions(words) = {i} =>
              (ScoredReversed(words, i) <=> NegationPending(words, i))

\* a marker, a token that is neither marker nor sentiment word, then a
\* positive word, scored below 0
C19_Witness ==
  /\ call.op = "analyze_sentence"
  /\ IsStr(call.text)
  /\ Len(call.text.words) = 3
  /\ call.text.words[1] \in negation_words
  /\ call.text.words[2] \notin negation_words
  /\ 2 \notin SentimentPositions(call.text.words)
  /\ call.text.words[3] \in positive_words
  /\ FLt(call.ret, Frac(0, 1))

(***************************************************************************)
(* The built-in lexicon and the intensity weighting (SpecSentence).        *)
(***************************************************************************)
\* C20: in the lexicon __init__ builds, no word is both positive and
\* negative and no key of intensity_words is a positive or a negative word;
\* so in every scored token sequence the intensity looked up at a sentiment
\* word is 1.0, the word adds exactly +1 or -1 to the sum, and the sum
\* divided by the number of tokens is the score without the clamp changing
\* it.
C20_IntensityIsNoOp ==
  /\ positive_words \cap negative_words = {}
  /\ \A p \in intensity_words : p[1] \notin positive_words \cup negative_words
  /\ (call.op = "analyze_sentence" /\ IsStr(call.text)) =>
       LET words == call.text.words
           n == Len(words)
           S == SentenceLoop(lexicon, words, 1, 0, FALSE)
       IN /\ \A i \in SentimentPositions(words) :
               /\ IntensityGet(intensity_words, words[i]) = 10
               /\ Contribution(words, i) \in {10, -10}
          /\ \A i \in DOMAIN words \ SentimentPositions(words) :
               Contribution(words, i) = 0
          /\ -(10 * n) <= S /\ S <= 10 * n
          /\ n > 0 => FEq(call.ret, Frac(S, 10 * n))

\* an intensity word and a sentiment word, scored 1/2 or -1/2
C20_Witness ==
  /\ call.op = "analyze_sentence"
  /\ IsStr(call.text)
  /\ Len(call.text.words) = 2
  /\ ModifierOf(call.text.words[1]) # 10
  /\ SentimentPositions(call.text.words) = {2}
  /\ FEq(call.ret, Frac(1, 2)) \/ FEq(call.ret, Frac(-1, 2))

(***************************************************************************)
(* Occurrences against related comments (Spec).                            *)
(***************************************************************************)
\* the stripped tokens of the frame, in the order of the corpus
StrippedTokens(frame) ==
  [k \in DOMAIN Segmented(frame) |-> Strip(Segmented(frame)[k])]

\* C21: occurrence_count of a topic is the number of occurrences of the
\* keyword among the retained tokens of all comments, repeats inside one
\* comment counted, while related_comment_count counts each comment at most
\* once; a topic with occurrence_count > related_comment_count exists
\* (C21_Witness).
C21_OccurrencesCountRepeats ==
  (call.op = "find_hot_topics" /\ call.raised = "none") =>
    \A t \in DOMAIN call.ret :
      LET topic == call.ret[t]
          cells == call.df_in["content"]
      IN /\ PassesThreeTests(topic.keyword)
         /\ topic.occurrence_count =
              Occurrences(StrippedTokens(call.df_in), topic.keyword)
         /\ topic.related_comment_count <= Len(cells)
         /\ \E rows \in SUBSET DOMAIN cells :
              /\ Cardinality(rows) = topic.related_comment_count
              /\ \A a \in DOMAIN topic.sample_comments :
                   \E r \in rows : cells[r] = topic.sample_comments[a]

\* a topic whose keyword occurs more often than there are related comments
C21_Witness ==
  /\ call.op = "find_hot_topics"
  /\ call.raised = "none"
  /\ \E t \in DOMAIN call.ret :
       /\ call.ret[t].related_comment_count >= 1
       /\ call.ret[t].occurrence_count > call.ret[t].related_comment_count

\* C22 as claimed: every topic find_hot_topics returns has
\* related_comment_count >= 1 and sample_comments that is not empty.
C22_EveryTopicHasARelatedComment ==
  (call.op = "find_hot_topics" /\ call.raised = "none") =>
    \A t \in DOMAIN call.ret :
      /\ call.ret[t].related_comment_count >= 1
      /\ call.ret[t].sample_comments # <<>>

(***************************************************************************)
(* Runs of negation markers (SpecSentence).                                *)
(***************************************************************************)
\* the markers between the sentiment word before place i (or the start) and
\* place i
MarkersBefore(words, i) ==
  {j \in 1..(i - 1) :
     /\ words[j] \in negation_words
     /\ \A m \in (j + 1)..(i - 1) : m \notin SentimentPositions(words)}

\* the places of the markers that no sentiment word follows
TrailingMarkers(words) ==
  {j \in DOMAIN words :
     /\ words[j] \in negation_words
     /\ \A m \in (j + 1)..Len(words) : m \notin SentimentPositions(words)}

\* C23: negation markers do not cancel.  One marker or several before a
\* sentiment word, next to each other or with tokens that are no sentiment
\* words among them, flip the word once; only a sentiment word clears the
\* flag, so a word with no marker since the sentiment word before it is not
\* flipped; a marker that no sentiment word follows leaves the sum as it is
\* and enters the score through the number of tokens only.
C23_MarkersDoNotCancel ==
  (call.op = "analyze_sentence" /\ IsStr(call.text)) =>
    LET words == call.text.words
        n == Len(words)
    IN /\ \A i \in SentimentPositions(words) :
            LET base == IF words[i] \in positive_words THEN 10 ELSE -10
                run == Cardinality(MarkersBefore(words, i))
            IN /\ run >= 1 => Contribution(words, i) = -base
               /\ run = 0 => Contribution(words, i) = base
               /\ (run >= 1 /\ SentimentPositions(words) = {i}) =>
                    ScoredReversed(words, i)
       /\ \A j \in TrailingMarkers(words) :
            LET rest == RemoveAt(words, j)
                S == SentenceLoop(lexicon, rest, 1, 0, FALSE)
            IN /\ Contribution(words, j) = 0
               /\ SentenceLoop(lexicon, words, 1, 0, FALSE) = S
               /\ FEq(call.ret, Frac(S, 10 * n))

\* two markers before the one sentiment word, which is scored reversed
C23_Witness ==
  /\ call.op = "analyze_sentence"
  /\ IsStr(call.text)
  /\ \E i \in DOMAIN call.text.words :
       /\ SentimentPositions(call.text.words) = {i}
       /\ Cardinality(MarkersBefore(call.text.words, i)) = 2
       /\ ScoredReversed(call.text.words, i)

====
